---- MODULE Spec2Model ----
(***************************************************************************)
(* Deal scoring and AB 1482 rent-cap helpers of CalReal Deals              *)
(* (src/unnamed/part_000: deal-score.ts followed by rent-cap-helper.ts),   *)
(* and the functions and triggers of src/supabase/schema.sql.              *)
(*                                                                         *)
(* JavaScript numbers are modelled as exact rationals together with the    *)
(* IEEE-754 special values NaN, +Infinity and -Infinity, so that division  *)
(* by zero, NaN propagation through Math.min/Math.max and the truthiness   *)
(* of 0 behave as in the source.  Rounding of binary floating point and    *)
(* the sign of zero are not modelled.  An omitted optional field or        *)
(* argument is the value Undefined.                                        *)
(***************************************************************************)
EXTENDS Integers, Sequences, FiniteSets, TLC

VARIABLES
  now,         \* the wall-clock year, what new Date().getFullYear() returns
  completion,  \* "none" while no call is in progress, else how the call completed
  fn,          \* the function that was called
  args,        \* its arguments
  reads,       \* the years its clock reads returned, in order
  ret,         \* the value it returned
  properties   \* the rows of the database table properties, in insertion order

vars == <<now, completion, fn, args, reads, ret, properties>>

\* the first year of the clock and the number of new years it can pass
BaseYear == 2024

MaxTicks == 1

MaxYear == BaseYear + MaxTicks

\* the most rows the table properties holds
MaxRows == 1

----------------------------------------------------------------------------
(* JavaScript number values *)

Abs(i) == IF i < 0 THEN -i ELSE i

Sign(i) == IF i < 0 THEN -1 ELSE IF i > 0 THEN 1 ELSE 0

RECURSIVE GCD(_, _)
GCD(a, b) == IF b = 0 THEN a ELSE GCD(b, a % b)

NaN == [t |-> "nan", n |-> 0, d |-> 1]

Infinity == [t |-> "inf", n |-> 1, d |-> 1]

NegInfinity == [t |-> "inf", n |-> -1, d |-> 1]

Undefined == [t |-> "undef", n |-> 0, d |-> 1]

\* the rational n/d in lowest terms with a positive denominator
Frac(n, d) ==
  LET s == IF d < 0 THEN -1 ELSE 1
      g == GCD(Abs(n), Abs(d))
  IN  [t |-> "fin", n |-> (s * n) \div g, d |-> (s * d) \div g]

Num(i) == [t |-> "fin", n |-> i, d |-> 1]

IsNaN(x) == x.t = "nan"

IsFinite(x) == x.t = "fin"

SignOf(x) == Sign(x.n)

Neg(x) == IF x.t = "fin" \/ x.t = "inf" THEN [x EXCEPT !.n = -x.n] ELSE x

\* a + b
Add(a, b) ==
  IF a.t = "fin" /\ b.t = "fin" THEN Frac(a.n * b.d + b.n * a.d, a.d * b.d)
  ELSE IF a.t \notin {"fin", "inf"} \/ b.t \notin {"fin", "inf"} THEN NaN
  ELSE IF a.t = "inf" /\ b.t = "inf" THEN (IF a.n = b.n THEN a ELSE NaN)
  ELSE IF a.t = "inf" THEN a ELSE b

\* a - b
Sub(a, b) == Add(a, Neg(b))

\* a * b
Mul(a, b) ==
  IF a.t = "fin" /\ b.t = "fin" THEN Frac(a.n * b.n, a.d * b.d)
  ELSE IF a.t \notin {"fin", "inf"} \/ b.t \notin {"fin", "inf"} THEN NaN
  ELSE IF SignOf(a) * SignOf(b) = 0 THEN NaN
  ELSE IF SignOf(a) * SignOf(b) > 0 THEN Infinity ELSE NegInfinity

\* a / b: x/0 is +-Infinity, 0/0 and Infinity/Infinity are NaN
Div(a, b) ==
  IF a.t \notin {"fin", "inf"} \/ b.t \notin {"fin", "inf"} THEN NaN
  ELSE IF a.t = "inf" /\ b.t = "inf" THEN NaN
  ELSE IF b.t = "inf" THEN Num(0)
  ELSE IF a.t = "inf" THEN (IF b.n < 0 THEN Neg(a) ELSE a)
  ELSE IF b.n = 0 THEN (IF a.n = 0 THEN NaN
                         ELSE IF a.n > 0 THEN Infinity ELSE NegInfinity)
  ELSE Frac(a.n * b.d, a.d * b.n)

Comparable(a, b) == a.t \in {"fin", "inf"} /\ b.t \in {"fin", "inf"}

\* a < b; every comparison with NaN or undefined is false
Lt(a, b) ==
  /\ Comparable(a, b)
  /\ IF a.t = "fin" /\ b.t = "fin" THEN a.n * b.d < b.n * a.d
     ELSE IF a.t = "inf" /\ b.t = "inf" THEN a.n < b.n
     ELSE IF a.t = "inf" THEN a.n < 0
     ELSE b.n > 0

Gt(a, b) == Lt(b, a)

Le(a, b) == Comparable(a, b) /\ ~Lt(b, a)

Ge(a, b) == Le(b, a)

\* Math.min and Math.max return NaN when an argument is NaN
MathMin(a, b) == IF ~Comparable(a, b) THEN NaN ELSE IF Lt(b, a) THEN b ELSE a

MathMax(a, b) == IF ~Comparable(a, b) THEN NaN ELSE IF Lt(a, b) THEN b ELSE a

\* ToBoolean of a number or undefined: false for undefined, NaN and 0
Truthy(x) == x.t = "inf" \/ (x.t = "fin" /\ x.n # 0)

\* a || b
OrElse(a, b) == IF Truthy(a) THEN a ELSE b

\* Number.prototype.toFixed(digits): the sign and the nearest multiple of
\* 10^-digits to |x|, the larger one on a tie, as <<"fixed", digits, integer>>;
\* NaN and the infinities are written as themselves
ToFixed(x, digits) ==
  IF x.t # "fin" THEN <<x.t, x.n>>
  ELSE LET scale == IF digits = 0 THEN 1 ELSE IF digits = 1 THEN 10 ELSE 100
           num == 2 * Abs(x.n) * scale + x.d
           den == 2 * x.d
       IN  <<"fixed", digits, Sign(x.n) * (num \div den)>>

\* Number.prototype.toLocaleString(): at most three fraction digits, as
\* <<"locale", thousandths>>; NaN and the infinities are written as themselves
ToLocaleString(x) ==
  IF x.t # "fin" THEN <<x.t, x.n>>
  ELSE LET whole == Abs(x.n) \div x.d
           rest == Abs(x.n) % x.d
       IN  <<"locale", Sign(x.n) * (whole * 1000 + (2 * rest * 1000 + x.d) \div (2 * x.d))>>

----------------------------------------------------------------------------
(* rent-cap-helper.ts.  Years are integers; currentYear is the value that  *)
(* the function's new Date().getFullYear() returns.                        *)

\* an inflation rate under 3%, which leaves room below the 8% premium
LOW_INFLATION_RATE == Num(2)

CURRENT_INFLATION_RATE == Frac(34, 10)

\* the age test with the boundary year left out
isAgeEligibleStrict(propertyAge) == propertyAge > 15

\* the age test of checkRentCapEligibility
isAgeEligible(propertyAge) == propertyAge >= 15

\* checkRentCapEligibility with the whole cap, not the inflation rate alone,
\* scaled by 0.9 in nextYearCap
checkRentCapEligibilityScaledCap(yearBuilt, currentYear) ==
  LET propertyAge == currentYear - yearBuilt
      isEligible == isAgeEligible(propertyAge)
  IN  [isEligible |-> isEligible,
       maxIncreasePercentage |->
         IF isEligible THEN Add(Num(5), CURRENT_INFLATION_RATE) ELSE Num(0),
       currentYear |-> currentYear,
       yearBuilt |-> yearBuilt,
       propertyAge |-> propertyAge,
       exemptionReasons |->
         IF ~isEligible
         THEN << <<"Property is only", propertyAge, "years old (must be 15+ years)">> >>
         ELSE << >>,
       nextYearCap |->
         IF isEligible
         THEN Mul(Add(Num(5), CURRENT_INFLATION_RATE), Frac(9, 10))
         ELSE Num(0)]

\* checkRentCapEligibility(yearBuilt)
checkRentCapEligibility(yearBuilt, currentYear) ==
  LET propertyAge == currentYear - yearBuilt
      isEligible == isAgeEligible(propertyAge)
  IN  [isEligible |-> isEligible,
       maxIncreasePercentage |->
         IF isEligible THEN Add(Num(5), CURRENT_INFLATION_RATE) ELSE Num(0),
       currentYear |-> currentYear,
       yearBuilt |-> yearBuilt,
       propertyAge |-> propertyAge,
       exemptionReasons |->
         IF ~isEligible
         THEN << <<"Property is only", propertyAge, "years old (must be 15+ years)">> >>
         ELSE << >>,
       nextYearCap |->
         IF isEligible
         THEN Add(Num(5), Mul(CURRENT_INFLATION_RATE, Frac(9, 10)))
         ELSE Num(0)]

\* calculateMaxRentIncrease without the early return for ineligible properties
calculateMaxRentIncreaseUngated(currentRent, yearBuilt, inflationRate, currentYear) ==
  LET rentCapInfo == checkRentCapEligibility(yearBuilt, currentYear)
      inflation == OrElse(inflationRate, CURRENT_INFLATION_RATE)
      increasePercentage == Add(Num(5), inflation)
      maxIncrease == Mul(currentRent, Div(increasePercentage, Num(100)))
  IN  [maxIncrease |-> maxIncrease,
       maxNewRent |-> Add(currentRent, maxIncrease),
       increasePercentage |-> increasePercentage,
       isEligible |-> rentCapInfo.isEligible]

\* calculateMaxRentIncrease(currentRent, yearBuilt, inflationRate?)
calculateMaxRentIncrease(currentRent, yearBuilt, inflationRate, currentYear) ==
  LET rentCapInfo == checkRentCapEligibility(yearBuilt, currentYear)
      inflation == OrElse(inflationRate, CURRENT_INFLATION_RATE)
      increasePercentage == Add(Num(5), inflation)
      maxIncrease == Mul(currentRent, Div(increasePercentage, Num(100)))
      maxNewRent == Add(currentRent, maxIncrease)
  IN  IF ~rentCapInfo.isEligible
      THEN [maxIncrease |-> Num(0),
            maxNewRent |-> currentRent,
            increasePercentage |-> Num(0),
            isEligible |-> FALSE]
      ELSE [maxIncrease |-> maxIncrease,
            maxNewRent |-> maxNewRent,
            increasePercentage |-> increasePercentage,
            isEligible |-> TRUE]

\* A string is the sequence of its characters.
UpperCase == <<"A", "B", "C", "D", "E", "F", "G", "H", "I", "J", "K", "L", "M",
               "N", "O", "P", "Q", "R", "S", "T", "U", "V", "W", "X", "Y", "Z">>

LowerCase == <<"a", "b", "c", "d", "e", "f", "g", "h", "i", "j", "k", "l", "m",
               "n", "o", "p", "q", "r", "s", "t", "u", "v", "w", "x", "y", "z">>

\* a label compared as it was typed
toLowerCaseNone(str) == str

\* String.prototype.toLowerCase
toLowerCase(str) ==
  [i \in 1..Len(str) |->
     IF \E k \in 1..Len(UpperCase) : UpperCase[k] = str[i]
     THEN LowerCase[CHOOSE k \in 1..Len(UpperCase) : UpperCase[k] = str[i]]
     ELSE str[i]]

\* String.prototype.includes
includes(str, searchString) ==
  \E i \in 0..(Len(str) - Len(searchString)) :
    \A j \in 1..Len(searchString) : str[i + j] = searchString[j]

Dorm == <<"d", "o", "r", "m">>
School == <<"s", "c", "h", "o", "o", "l">>
Hotel == <<"h", "o", "t", "e", "l">>
Motel == <<"m", "o", "t", "e", "l">>
Nonprofit == <<"n", "o", "n", "p", "r", "o", "f", "i", "t">>
Affordable == <<"a", "f", "f", "o", "r", "d", "a", "b", "l", "e">>

\* checkAdditionalExemptions(propertyType, isSingleFamily, ownerOccupied, recentlyBuilt)
checkAdditionalExemptions(propertyType, isSingleFamily, ownerOccupied, recentlyBuilt) ==
  LET lower == toLowerCase(propertyType)
      exemptionReasons ==
        (IF isSingleFamily /\ ~ownerOccupied
         THEN <<"Single-family home owned by small landlord (<=2 properties)">>
         ELSE << >>)
        \o (IF recentlyBuilt THEN <<"Recently constructed property">> ELSE << >>)
        \o (IF includes(lower, Dorm) \/ includes(lower, School)
            THEN <<"Educational institution housing">> ELSE << >>)
        \o (IF includes(lower, Hotel) \/ includes(lower, Motel)
            THEN <<"Transient lodging">> ELSE << >>)
        \o (IF includes(lower, Nonprofit) \/ includes(lower, Affordable)
            THEN <<"Restricted affordable housing">> ELSE << >>)
      hasExemptions == Len(exemptionReasons) > 0
  IN  [hasExemptions |-> hasExemptions,
       exemptionReasons |-> exemptionReasons,
       isSubjectToAB1482 |-> ~hasExemptions]

\* the notice's isEligible taken from the age test alone
noticeIsEligibleByAge(rentCapInfo, exemptionCheck) == rentCapInfo.isEligible

\* isEligible of the record generateRentCapNotice returns
noticeIsEligible(rentCapInfo, exemptionCheck) ==
  rentCapInfo.isEligible /\ ~exemptionCheck.hasExemptions

\* the notice text of generateRentCapNotice, as the sequence of its lines
noticeLines(currentRent, yearBuilt, rentCapInfo, exemptionCheck, increaseCalc) ==
  (IF ~rentCapInfo.isEligible \/ exemptionCheck.hasExemptions
   THEN << <<"This property may be exempt from AB 1482 rent cap regulations.">> >>
        \o (IF ~rentCapInfo.isEligible
            THEN << <<"Property Age Exemption: Built in", yearBuilt,
                      rentCapInfo.propertyAge, "years old">>,
                    <<"AB 1482 applies to properties 15+ years old.">> >>
            ELSE << >>)
        \o (IF exemptionCheck.hasExemptions
            THEN << <<"Additional Exemptions:">> >>
                 \o [i \in 1..Len(exemptionCheck.exemptionReasons) |->
                       <<"*", exemptionCheck.exemptionReasons[i]>>]
            ELSE << >>)
   ELSE << <<"This property is subject to AB 1482 rent cap regulations.">>,
           <<"Current Rent: $", ToLocaleString(currentRent)>>,
           <<"Maximum Annual Increase: %", ToFixed(increaseCalc.increasePercentage, 1)>>,
           <<"Maximum Increase Amount: $", ToFixed(increaseCalc.maxIncrease, 2)>>,
           <<"Maximum New Rent: $", ToLocaleString(increaseCalc.maxNewRent)>> >>)
  \o << <<"---">>,
        <<"This is for informational purposes only. Consult with legal counsel for specific compliance requirements.">> >>

\* complianceNotes of generateRentCapNotice
noticeComplianceNotes(rentCapInfo, exemptionCheck) ==
  IF ~rentCapInfo.isEligible \/ exemptionCheck.hasExemptions
  THEN IF exemptionCheck.hasExemptions
       THEN <<"Consult with legal counsel to confirm exemption status">>
       ELSE << >>
  ELSE <<"Provide proper 90-day notice for rent increases",
         "Include AB 1482 compliance information in notice",
         "Keep documentation of inflation rate calculation">>

\* generateRentCapNotice(currentRent, yearBuilt, propertyType, isSingleFamily,
\* ownerOccupied). eligibilityYear is the year read by its own
\* checkRentCapEligibility call, increaseYear the one read inside
\* calculateMaxRentIncrease.
generateRentCapNotice(currentRent, yearBuilt, propertyType, isSingleFamily, ownerOccupied, eligibilityYear, increaseYear) ==
  LET rentCapInfo == checkRentCapEligibility(yearBuilt, eligibilityYear)
      exemptionCheck == checkAdditionalExemptions(propertyType, isSingleFamily,
                                                  ownerOccupied, yearBuilt > 2009)
      increaseCalc == calculateMaxRentIncrease(currentRent, yearBuilt, Undefined,
                                               increaseYear)
  IN  [notice |-> noticeLines(currentRent, yearBuilt, rentCapInfo, exemptionCheck,
                              increaseCalc),
       isEligible |-> noticeIsEligible(rentCapInfo, exemptionCheck),
       maxIncrease |-> increaseCalc.maxIncrease,
       complianceNotes |-> noticeComplianceNotes(rentCapInfo, exemptionCheck)]

\* the stabilized increase taken from the caller's assumed rate
stabilizedIncreaseAssumed(rentCapInfo, potentialRentIncrease) == potentialRentIncrease

\* stabilizedIncrease of calculateRentStabilizationBoost, which does not read
\* the potentialRentIncrease parameter
stabilizedIncreaseOf(rentCapInfo, potentialRentIncrease) ==
  Div(rentCapInfo.maxIncreasePercentage, Num(100))

\* calculateRentStabilizationBoost(yearBuilt, currentMarketRent, potentialRentIncrease)
calculateRentStabilizationBoost(yearBuilt, currentMarketRent, potentialRentIncrease, currentYear) ==
  LET rentCapInfo == checkRentCapEligibility(yearBuilt, currentYear)
      marketVolatilityPremium == Frac(8, 100)
      stabilizedIncrease == stabilizedIncreaseOf(rentCapInfo, potentialRentIncrease)
      volatilityBenefit == Sub(marketVolatilityPremium, stabilizedIncrease)
      annualValue == Mul(currentMarketRent, volatilityBenefit)
      fiveYearValue == Mul(annualValue, Num(5))
      boostScore ==
        MathMin(Num(20),
                MathMax(Num(0), Mul(Div(annualValue, currentMarketRent), Num(100))))
  IN  IF ~rentCapInfo.isEligible
      THEN [boostScore |-> Num(0),
            annualValue |-> Num(0),
            fiveYearValue |-> Num(0),
            reasoning |-> <<"Property not eligible for rent stabilization benefits">>]
      ELSE [boostScore |-> boostScore,
            annualValue |-> annualValue,
            fiveYearValue |-> fiveYearValue,
            reasoning |-> <<"Rent stabilization provides predictable",
                            ToFixed(rentCapInfo.maxIncreasePercentage, 1),
                            Mul(marketVolatilityPremium, Num(100)),
                            ToFixed(annualValue, 0)>>]

----------------------------------------------------------------------------
(* deal-score.ts *)

\* calculatePriceAdvantage with the buckets' upper bounds exclusive
calculatePriceAdvantageExclusive(property, neighborhood) ==
  LET propertyPricePerSqft == Div(property.price, property.sqft)
      priceRatio == Div(propertyPricePerSqft, neighborhood.medianPricePerSqft)
  IN  IF Lt(priceRatio, Frac(8, 10)) THEN Num(40)
      ELSE IF Lt(priceRatio, Frac(9, 10)) THEN Num(35)
      ELSE IF Lt(priceRatio, Frac(95, 100)) THEN Num(30)
      ELSE IF Lt(priceRatio, Num(1)) THEN Num(25)
      ELSE IF Lt(priceRatio, Frac(105, 100)) THEN Num(20)
      ELSE IF Lt(priceRatio, Frac(11, 10)) THEN Num(15)
      ELSE IF Lt(priceRatio, Frac(12, 10)) THEN Num(10)
      ELSE Num(5)

\* calculatePriceAdvantage(property, neighborhood)
calculatePriceAdvantage(property, neighborhood) ==
  LET propertyPricePerSqft == Div(property.price, property.sqft)
      priceRatio == Div(propertyPricePerSqft, neighborhood.medianPricePerSqft)
  IN  IF Le(priceRatio, Frac(8, 10)) THEN Num(40)
      ELSE IF Le(priceRatio, Frac(9, 10)) THEN Num(35)
      ELSE IF Le(priceRatio, Frac(95, 100)) THEN Num(30)
      ELSE IF Le(priceRatio, Num(1)) THEN Num(25)
      ELSE IF Le(priceRatio, Frac(105, 100)) THEN Num(20)
      ELSE IF Le(priceRatio, Frac(11, 10)) THEN Num(15)
      ELSE IF Le(priceRatio, Frac(12, 10)) THEN Num(10)
      ELSE Num(5)

\* sizeScore with two bedrooms per bathroom no longer a good ratio
sizeScoreBelowTwo(property, neighborhood) ==
  LET sizeRatio == Div(property.sqft, neighborhood.avgSqft)
      s1 == IF Ge(sizeRatio, Frac(12, 10)) THEN Add(Frac(75, 10), Num(4))
            ELSE IF Ge(sizeRatio, Frac(11, 10)) THEN Add(Frac(75, 10), Num(3))
            ELSE IF Ge(sizeRatio, Num(1)) THEN Add(Frac(75, 10), Num(2))
            ELSE IF Ge(sizeRatio, Frac(9, 10)) THEN Add(Frac(75, 10), Num(1))
            ELSE Sub(Frac(75, 10), Num(2))
      bedBathRatio == Div(property.beds, property.baths)
      s2 == IF Ge(bedBathRatio, Num(1)) /\ Lt(bedBathRatio, Num(2)) THEN Add(s1, Num(2))
            ELSE IF Gt(bedBathRatio, Num(2)) THEN Sub(s1, Num(1))
            ELSE s1
  IN  IF property.propertyType = "single_family" THEN Add(s2, Num(2))
      ELSE IF property.propertyType = "townhouse" THEN Add(s2, Num(1))
      ELSE s2

\* the score of calculateSizeAdvantage before its final clamp
sizeScore(property, neighborhood) ==
  LET sizeRatio == Div(property.sqft, neighborhood.avgSqft)
      s1 == IF Ge(sizeRatio, Frac(12, 10)) THEN Add(Frac(75, 10), Num(4))
            ELSE IF Ge(sizeRatio, Frac(11, 10)) THEN Add(Frac(75, 10), Num(3))
            ELSE IF Ge(sizeRatio, Num(1)) THEN Add(Frac(75, 10), Num(2))
            ELSE IF Ge(sizeRatio, Frac(9, 10)) THEN Add(Frac(75, 10), Num(1))
            ELSE Sub(Frac(75, 10), Num(2))
      bedBathRatio == Div(property.beds, property.baths)
      s2 == IF Ge(bedBathRatio, Num(1)) /\ Le(bedBathRatio, Num(2)) THEN Add(s1, Num(2))
            ELSE IF Gt(bedBathRatio, Num(2)) THEN Sub(s1, Num(1))
            ELSE s1
  IN  IF property.propertyType = "single_family" THEN Add(s2, Num(2))
      ELSE IF property.propertyType = "townhouse" THEN Add(s2, Num(1))
      ELSE s2

\* calculateSizeAdvantage without its final clamp
calculateSizeAdvantageUnclamped(property, neighborhood) ==
  sizeScore(property, neighborhood)

\* calculateSizeAdvantage(property, neighborhood)
calculateSizeAdvantage(property, neighborhood) ==
  MathMin(Num(15), MathMax(Num(0), sizeScore(property, neighborhood)))

\* calculateAgeAdvantage with 'much older' beginning at exactly 20 years
calculateAgeAdvantageFrom20(property, neighborhood, currentYear) ==
  LET propertyAge == currentYear - property.yearBuilt
      neighborhoodAge == currentYear - neighborhood.avgYearBuilt
      s1 == IF propertyAge >= neighborhoodAge + 20 THEN 10 + 5
            ELSE IF propertyAge > neighborhoodAge + 10 THEN 10 + 3
            ELSE IF propertyAge > neighborhoodAge - 5 THEN 10 + 1
            ELSE 10 - 2
      score == IF propertyAge >= 50 THEN s1 + 3
               ELSE IF propertyAge >= 30 THEN s1 + 2
               ELSE s1
  IN  MathMin(Num(15), MathMax(Num(0), Num(score)))

\* calculateAgeAdvantage(property, neighborhood); currentYear is the value
\* its new Date().getFullYear() returns
calculateAgeAdvantage(property, neighborhood, currentYear) ==
  LET propertyAge == currentYear - property.yearBuilt
      neighborhoodAge == currentYear - neighborhood.avgYearBuilt
      s1 == IF propertyAge > neighborhoodAge + 20 THEN 10 + 5
            ELSE IF propertyAge > neighborhoodAge + 10 THEN 10 + 3
            ELSE IF propertyAge > neighborhoodAge - 5 THEN 10 + 1
            ELSE 10 - 2
      score == IF propertyAge >= 50 THEN s1 + 3
               ELSE IF propertyAge >= 30 THEN s1 + 2
               ELSE s1
  IN  MathMin(Num(15), MathMax(Num(0), Num(score)))

\* calculateRentStabilizationBonusValue(property, neighborhood); currentYear
\* is its own clock read, boostYear the later one of checkRentCapEligibility
\* inside calculateRentStabilizationBoost
calculateRentStabilizationBonusValue(property, neighborhood, currentYear, boostYear) ==
  LET propertyAge == currentYear - property.yearBuilt
      estimatedMarketRent == Div(Mul(property.price, Frac(8, 1000)), Num(12))
      rentStabilizationBoost ==
        calculateRentStabilizationBoost(property.yearBuilt, estimatedMarketRent,
                                        Add(Frac(5, 100), Frac(34, 1000)), boostYear)
  IN  IF propertyAge < 15 THEN Num(0)
      ELSE MathMin(Num(10), Div(rentStabilizationBoost.boostScore, Num(2)))

\* calculateLocationBonus(neighborhood)
calculateLocationBonus(neighborhood) ==
  LET walk == IF Truthy(neighborhood.walkScore)
              THEN (IF Ge(neighborhood.walkScore, Num(90)) THEN 3
                    ELSE IF Ge(neighborhood.walkScore, Num(70)) THEN 2
                    ELSE IF Ge(neighborhood.walkScore, Num(50)) THEN 1 ELSE 0)
              ELSE 0
      school == IF Truthy(neighborhood.schoolRating)
                THEN (IF Ge(neighborhood.schoolRating, Num(8)) THEN 2
                      ELSE IF Ge(neighborhood.schoolRating, Num(6)) THEN 1 ELSE 0)
                ELSE 0
      crime == IF Truthy(neighborhood.crimeRate)
               THEN (IF Le(neighborhood.crimeRate, Num(20)) THEN 2
                     ELSE IF Le(neighborhood.crimeRate, Num(40)) THEN 1 ELSE 0)
               ELSE 0
      transit == IF Truthy(neighborhood.transitScore)
                 THEN (IF Ge(neighborhood.transitScore, Num(70)) THEN 1 ELSE 0)
                 ELSE 0
      score == 5 + walk + school + crime + transit
  IN  MathMin(Num(10), MathMax(Num(0), Num(score)))

\* calculateMarketTimingBonus(neighborhood)
calculateMarketTimingBonus(neighborhood) ==
  LET rate == neighborhood.priceAppreciationRate
      appreciation == IF Truthy(rate)
                      THEN (IF Ge(rate, Num(8)) THEN 3
                            ELSE IF Ge(rate, Num(5)) THEN 2
                            ELSE IF Ge(rate, Num(3)) THEN 1
                            ELSE IF Lt(rate, Num(0)) THEN -2 ELSE 0)
                      ELSE 0
      yield == IF Truthy(neighborhood.rentalYield)
               THEN (IF Ge(neighborhood.rentalYield, Num(6)) THEN 2
                     ELSE IF Ge(neighborhood.rentalYield, Num(4)) THEN 1 ELSE 0)
               ELSE 0
      score == 5 + appreciation + yield
  IN  MathMin(Num(10), MathMax(Num(0), Num(score)))

\* x || 'N/A' inside a template literal
OrNA(x) == IF Truthy(x) THEN x ELSE <<"N/A">>

\* one element of the breakdown array
entry(component, score, maxScore, explanation) ==
  [component |-> component, score |-> score, maxScore |-> maxScore,
   explanation |-> explanation]

priceExplanation(property, neighborhood) ==
  <<ToFixed(Div(property.price, property.sqft), 0),
    ToFixed(neighborhood.medianPricePerSqft, 0)>>

sizeExplanation(property) == <<property.beds, property.baths, property.sqft>>

ageExplanation(property, rentStabilizationBonus) ==
  <<property.yearBuilt, ToFixed(rentStabilizationBonus, 1)>>

locationExplanation(neighborhood) ==
  <<OrNA(neighborhood.walkScore), OrNA(neighborhood.schoolRating)>>

timingExplanation(neighborhood) ==
  <<OrNA(neighborhood.priceAppreciationRate), OrNA(neighborhood.rentalYield)>>

\* the breakdown array with the size entry pushed before the price entry
scoreBreakdownSizeFirst(property, neighborhood, sub) ==
  << entry("Size & Layout", sub.sizeAdvantage, 15, sizeExplanation(property)),
     entry("Price Advantage", sub.priceAdvantage, 40,
           priceExplanation(property, neighborhood)),
     entry("Age & Rent Stabilization",
           Add(sub.ageAdvantage, sub.rentStabilizationBonus), 25,
           ageExplanation(property, sub.rentStabilizationBonus)),
     entry("Location & Amenities", sub.locationBonus, 10,
           locationExplanation(neighborhood)),
     entry("Market Timing", sub.marketTimingBonus, 10,
           timingExplanation(neighborhood)) >>

\* the breakdown array calculateDealScore builds from its sub-scores sub, one
\* push per component
scoreBreakdown(property, neighborhood, sub) ==
  << entry("Price Advantage", sub.priceAdvantage, 40,
           priceExplanation(property, neighborhood)),
     entry("Size & Layout", sub.sizeAdvantage, 15, sizeExplanation(property)),
     entry("Age & Rent Stabilization",
           Add(sub.ageAdvantage, sub.rentStabilizationBonus), 25,
           ageExplanation(property, sub.rentStabilizationBonus)),
     entry("Location & Amenities", sub.locationBonus, 10,
           locationExplanation(neighborhood)),
     entry("Market Timing", sub.marketTimingBonus, 10,
           timingExplanation(neighborhood)) >>

\* the running total with the location bonus never added
scoreTotalNoLocation(sub) ==
  LET t1 == Add(Num(0), sub.priceAdvantage)
      t2 == Add(t1, sub.sizeAdvantage)
      t3 == Add(t2, Add(sub.ageAdvantage, sub.rentStabilizationBonus))
      totalScore == Add(t3, sub.marketTimingBonus)
  IN  MathMin(Num(100), MathMax(Num(0), totalScore))

\* the running totalScore of calculateDealScore over its sub-scores sub, and
\* its final clamp
scoreTotal(sub) ==
  LET t1 == Add(Num(0), sub.priceAdvantage)
      t2 == Add(t1, sub.sizeAdvantage)
      t3 == Add(t2, Add(sub.ageAdvantage, sub.rentStabilizationBonus))
      t4 == Add(t3, sub.locationBonus)
      totalScore == Add(t4, sub.marketTimingBonus)
  IN  MathMin(Num(100), MathMax(Num(0), totalScore))

\* calculateDealScore(property, neighborhood); ageYear, bonusYear and
\* boostYear are the values of the three clock reads it makes, in order
calculateDealScore(property, neighborhood, ageYear, bonusYear, boostYear) ==
  LET sub ==
        [priceAdvantage |-> calculatePriceAdvantage(property, neighborhood),
         sizeAdvantage |-> calculateSizeAdvantage(property, neighborhood),
         ageAdvantage |-> calculateAgeAdvantage(property, neighborhood, ageYear),
         rentStabilizationBonus |->
           calculateRentStabilizationBonusValue(property, neighborhood, bonusYear,
                                                boostYear),
         locationBonus |-> calculateLocationBonus(neighborhood),
         marketTimingBonus |-> calculateMarketTimingBonus(neighborhood)]
  IN  [totalScore |-> scoreTotal(sub),
       priceAdvantage |-> sub.priceAdvantage,
       sizeAdvantage |-> sub.sizeAdvantage,
       ageAdvantage |-> sub.ageAdvantage,
       rentStabilizationBonus |-> sub.rentStabilizationBonus,
       locationBonus |-> sub.locationBonus,
       marketTimingBonus |-> sub.marketTimingBonus,
       breakdown |-> scoreBreakdown(property, neighborhood, sub)]

\* the five records getDealScoreCategory returns
ExcellentDeal ==
  [category |-> "Excellent Deal", color |-> "green",
   description |-> "Outstanding value with strong investment potential",
   recommendation |-> "Act quickly - these deals are rare and competitive"]

GreatDeal ==
  [category |-> "Great Deal", color |-> "blue",
   description |-> "Significantly undervalued with good fundamentals",
   recommendation |-> "Strong consideration - schedule viewing ASAP"]

GoodDeal ==
  [category |-> "Good Deal", color |-> "yellow",
   description |-> "Fairly priced with some advantages",
   recommendation |-> "Worth investigating further"]

AverageDeal ==
  [category |-> "Average Deal", color |-> "orange",
   description |-> "Market price with typical features",
   recommendation |-> "Consider if it meets specific needs"]

PoorDeal ==
  [category |-> "Poor Deal", color |-> "red",
   description |-> "Overpriced or lacking key features",
   recommendation |-> "Pass unless there are compelling reasons"]

\* getDealScoreCategory with the bands' lower edges exclusive
getDealScoreCategoryExclusive(score) ==
  IF Gt(score, Num(90)) THEN ExcellentDeal
  ELSE IF Gt(score, Num(80)) THEN GreatDeal
  ELSE IF Gt(score, Num(70)) THEN GoodDeal
  ELSE IF Gt(score, Num(60)) THEN AverageDeal
  ELSE PoorDeal

\* getDealScoreCategory(score)
getDealScoreCategory(score) ==
  IF Ge(score, Num(90)) THEN ExcellentDeal
  ELSE IF Ge(score, Num(80)) THEN GreatDeal
  ELSE IF Ge(score, Num(70)) THEN GoodDeal
  ELSE IF Ge(score, Num(60)) THEN AverageDeal
  ELSE PoorDeal


\* risks of generateInvestmentRecommendation, in the order they are pushed
recommendationRisks(dealScore, property, neighborhood, currentYear) ==
  (IF Lt(dealScore.priceAdvantage, Num(20))
   THEN <<"Property may be overpriced compared to neighborhood">> ELSE << >>)
  \o (IF property.yearBuilt > currentYear - 5
      THEN <<"New construction may have premium pricing">> ELSE << >>)
  \o (IF Truthy(neighborhood.crimeRate) /\ Gt(neighborhood.crimeRate, Num(50))
      THEN <<"Higher crime rate in area">> ELSE << >>)
  \o (IF Truthy(neighborhood.priceAppreciationRate)
         /\ Lt(neighborhood.priceAppreciationRate, Num(2))
      THEN <<"Low appreciation potential">> ELSE << >>)

\* opportunities of generateInvestmentRecommendation, in the order they are pushed
recommendationOpportunities(dealScore, neighborhood) ==
  (IF Gt(dealScore.rentStabilizationBonus, Num(5))
   THEN <<"Rent stabilization provides predictable cash flow">> ELSE << >>)
  \o (IF Gt(dealScore.locationBonus, Num(7))
      THEN <<"Excellent location with strong amenities">> ELSE << >>)
  \o (IF Truthy(neighborhood.priceAppreciationRate)
         /\ Gt(neighborhood.priceAppreciationRate, Num(6))
      THEN <<"High neighborhood appreciation potential">> ELSE << >>)
  \o (IF Truthy(neighborhood.rentalYield) /\ Gt(neighborhood.rentalYield, Num(5))
      THEN <<"Strong rental yield for investment">> ELSE << >>)

\* the reasoning sentence of generateInvestmentRecommendation, as its
\* interpolated parts; <<"toLowerCase", text>> is a fixed text in lower case
recommendationReasoning(dealScore, category) ==
  <<"Based on a", ToFixed(dealScore.totalScore, 1), "/100 deal score, this property",
    <<"toLowerCase", category.description>>, "Key factors include",
    <<"toLowerCase", dealScore.breakdown[1].component>>,
    ToFixed(dealScore.breakdown[1].score, 1), dealScore.breakdown[1].maxScore,
    <<"toLowerCase", dealScore.breakdown[2].component>>,
    ToFixed(dealScore.breakdown[2].score, 1), dealScore.breakdown[2].maxScore>>

\* generateInvestmentRecommendation(dealScore, property, neighborhood)
generateInvestmentRecommendation(dealScore, property, neighborhood, currentYear) ==
  LET category == getDealScoreCategory(dealScore.totalScore)
  IN  [recommendation |-> category.recommendation,
       reasoning |-> recommendationReasoning(dealScore, category),
       risks |-> recommendationRisks(dealScore, property, neighborhood, currentYear),
       opportunities |-> recommendationOpportunities(dealScore, neighborhood)]
----------------------------------------------------------------------------
(* supabase/schema.sql.  DECIMAL values are exact rationals; year is the    *)
(* value of EXTRACT(YEAR FROM NOW()), which is the same for every read of   *)
(* one statement.                                                           *)

\* SQL NULL in a numeric column
Null == [t |-> "null", n |-> 0, d |-> 1]

\* a value stored in a DECIMAL(5,2) column: rounded to two places, half away
\* from zero
Decimal2(x) ==
  IF x.t # "fin" THEN x
  ELSE LET whole == Abs(x.n) \div x.d
           rest == Abs(x.n) % x.d
       IN  Frac(Sign(x.n) * (whole * 100 + (2 * rest * 100 + x.d) \div (2 * x.d)), 100)

\* calculate_deal_score(p_price, p_sqft, p_neighborhood_median_price_per_sqft,
\* p_year_built, p_is_rent_stabilized)
calculate_deal_score(p_price, p_sqft, p_neighborhood_median_price_per_sqft, p_year_built, p_is_rent_stabilized, year) ==
  LET base_score == Num(50)
      price_ratio == IF Gt(p_neighborhood_median_price_per_sqft, Num(0))
                     THEN Div(Div(p_price, p_sqft), p_neighborhood_median_price_per_sqft)
                     ELSE Num(1)
      age_factor == IF p_year_built < year - 50 THEN Num(15)
                    ELSE IF p_year_built < year - 30 THEN Num(10)
                    ELSE IF p_year_built < year - 15 THEN Num(5)
                    ELSE Num(0)
      rent_stabilization_bonus == IF p_is_rent_stabilized THEN Num(20) ELSE Num(0)
  IN  MathMin(Num(100), MathMax(Num(0),
        Add(Add(Add(base_score, Mul(Sub(Num(1), price_ratio), Num(30))), age_factor),
            rent_stabilization_bonus)))

\* check_rent_cap_eligibility(p_year_built)
check_rent_cap_eligibility(p_year_built, year) == p_year_built < year - 15

\* the table neighborhood_stats, by id; no statement modelled here writes it
neighborhood_stats == [n1 |-> [median_price_per_sqft |-> Num(2)]]

\* the trigger function update_property_metrics() applied to the row NEW (new)
update_property_metrics(new, year) ==
  LET neighborhood_median ==
        IF new.neighborhood_id \in DOMAIN neighborhood_stats
        THEN neighborhood_stats[new.neighborhood_id].median_price_per_sqft
        ELSE Null
      coalesced == IF neighborhood_median # Null THEN neighborhood_median
                   ELSE Div(new.price, new.sqft)
      deal_score == calculate_deal_score(new.price, new.sqft, coalesced, new.year_built,
                                         new.is_rent_stabilized, year)
      is_rent_stabilized == check_rent_cap_eligibility(new.year_built, year)
  IN  [new EXCEPT !.deal_score = Decimal2(deal_score),
                  !.is_rent_stabilized = is_rent_stabilized,
                  !.rent_cap_percentage = IF is_rent_stabilized THEN Num(5) ELSE Null]

\* the trigger function update_updated_at_column() applied to the row NEW (new);
\* the timestamp is kept as its year
update_updated_at_column(new, year) == [new EXCEPT !.updated_at = year]

----------------------------------------------------------------------------
(* Callers: the inputs they pass *)

PropertyTypes == {"single_family", "condo", "townhouse", "multi_family"}

mkProperty(price, sqft, beds, baths, yearBuilt, propertyType) ==
  [price |-> price, sqft |-> sqft, beds |-> beds, baths |-> baths,
   yearBuilt |-> yearBuilt, propertyType |-> propertyType,
   latitude |-> Num(34), longitude |-> Num(-118)]

mkNeighborhood(medianPricePerSqft, avgSqft, avgYearBuilt, priceAppreciationRate, rentalYield, walkScore, transitScore, crimeRate, schoolRating) ==
  [medianPricePerSqft |-> medianPricePerSqft,
   medianPrice |-> Mul(medianPricePerSqft, avgSqft),
   avgSqft |-> avgSqft, avgBeds |-> Num(3), avgBaths |-> Num(2),
   avgYearBuilt |-> avgYearBuilt,
   priceAppreciationRate |-> priceAppreciationRate, rentalYield |-> rentalYield,
   walkScore |-> walkScore, transitScore |-> transitScore,
   crimeRate |-> crimeRate, schoolRating |-> schoolRating]

\* prices per 100 sqft against a median of 1 or 2 per sqft: every bucket of
\* the price step function, its edges and the values next to them
PriceProperties ==
  {mkProperty(Num(p), Num(a), Num(3), Num(2), BaseYear - 20, "condo") :
     p \in {-100} \cup 0..130, a \in {0, 100, 200}}

PriceNeighborhoods ==
  {mkNeighborhood(Num(m), Num(100), BaseYear - 20, Undefined, Undefined,
                  Undefined, Undefined, Undefined, Undefined) : m \in {0, 1, 2}}

Properties ==
  {mkProperty(Num(p), Num(a), Num(bd), Num(bt), y, ty) :
     p \in {-80, 0, 80, 130}, a \in {0, 80, 120}, bd \in {0, 3, 5}, bt \in {0, 2},
     y \in {BaseYear - 60, BaseYear - 14}, ty \in PropertyTypes}

CoreProperties ==
  {mkProperty(Num(p), Num(a), Num(3), Num(2), y, "single_family") :
     p \in {80, 130}, a \in {120}, y \in {BaseYear - 60, BaseYear - 14, BaseYear + 5}}

Opt(values) == {Undefined} \cup {Num(v) : v \in values}

Neighborhoods ==
  {mkNeighborhood(Num(1), Num(100), BaseYear - 30, ap, ry, ws, ts, cr, sr) :
     ap \in Opt({-1, 0, 9}), ry \in Opt({7}), ws \in Opt({95}), ts \in Opt({80}),
     cr \in Opt({0, 10}), sr \in Opt({9})}

\* neighborhoods at and beside every threshold of calculateLocationBonus
LocationNeighborhoods ==
  {mkNeighborhood(Num(1), Num(100), BaseYear - 30, Undefined, Undefined, ws, ts, cr, sr) :
     ws \in Opt({0, 49, 50, 70, 90}), ts \in Opt({0, 69, 70}),
     cr \in Opt({0, 20, 21, 40, 41}), sr \in Opt({0, 6, 8})}

\* the listings generateInvestmentRecommendation is asked about
RecommendationProperties ==
  {mkProperty(Num(p), Num(120), Num(3), Num(2), y, "single_family") :
     p \in {0, 80, 130},
     y \in {BaseYear - 60, BaseYear - 5, BaseYear - 4, BaseYear - 3, BaseYear + 5}}

RecommendationNeighborhoods ==
  {mkNeighborhood(Num(1), Num(100), BaseYear - 30, ap, ry, ws, Undefined, cr, Undefined) :
     ap \in Opt({-1, 0, 1, 2, 7}), ry \in Opt({0, 5, 7}), ws \in Opt({95}),
     cr \in Opt({0, 50, 51})}

\* properties at and beside every threshold of calculateSizeAdvantage
SizeProperties ==
  {mkProperty(Num(100), Num(a), Num(bd), bt, BaseYear - 30, ty) :
     a \in {0, 89, 90, 99, 100, 109, 110, 119, 120, 150}, bd \in 0..5,
     bt \in {Num(1), Frac(3, 2), Num(2)}, ty \in PropertyTypes}

SizeNeighborhoods ==
  {mkNeighborhood(Num(1), Num(a), BaseYear - 30, Undefined, Undefined,
                  Undefined, Undefined, Undefined, Undefined) : a \in {50, 100}}

AgeProperties ==
  {mkProperty(Num(100), Num(100), Num(3), Num(2), y, "condo") :
     y \in (BaseYear - 62)..(BaseYear + 3)}

AgeNeighborhoods ==
  {mkNeighborhood(Num(1), Num(100), y, Undefined, Undefined,
                  Undefined, Undefined, Undefined, Undefined) :
     y \in {BaseYear - 40, BaseYear - 30, BaseYear - 5}}

CoreNeighborhoods ==
  {mkNeighborhood(Num(m), Num(a), BaseYear - 30, Undefined, Undefined,
                  Undefined, Undefined, Undefined, Undefined) :
     m \in {0, 1}, a \in {0, 100}}

\* the property and neighborhood records calculateDealScore is called with
ScoreCases == (Properties \X CoreNeighborhoods) \cup (CoreProperties \X Neighborhoods)

\* scores 0.0, 0.1, ..., 100.0
Scores == {Frac(k, 10) : k \in 0..1000}

EligibilityYears == (BaseYear - 60)..(BaseYear + 2)

Rents == {Num(0), Num(1000), Frac(24995, 10)}

InflationRates == {Undefined, Num(0), Frac(25, 10), Frac(34, 10), Num(10), Num(-6)}

\* words a property-type label is made of, as a landlord would type them
EducationalWords == {<<"D", "o", "r", "m">>, <<"S", "C", "H", "O", "O", "L">>}
LodgingWords == {<<"h", "o", "t", "e", "l">>, <<"M", "o", "t", "e", "l">>}
AffordableWords == {<<"N", "o", "n", "P", "r", "o", "f", "i", "t">>,
                    <<"a", "f", "f", "o", "r", "d", "a", "b", "l", "e">>}
PlainWords == {<<"c", "o", "n", "d", "o">>, <<"d", "o", "r">>, << >>}
Words == EducationalWords \cup LodgingWords \cup AffordableWords \cup PlainWords

\* two words with a space between them
TwoWords(a, b) == a \o <<" ">> \o b

Labels == {TwoWords(a, b) : a \in Words, b \in Words}

NoticeLabels ==
  {TwoWords(<< >>, b) : b \in {<<"c", "o", "n", "d", "o">>, <<"S", "C", "H", "O", "O", "L">>}}

\* 2009 is the last year generateRentCapNotice does not call recently built
NoticeYears ==
  {BaseYear - 60, BaseYear - 16, BaseYear - 15, BaseYear - 14, BaseYear - 13, 2009, 2010}

MarketRents == {Num(-500), Num(0), Num(1000), Frac(24995, 10)}

\* the third argument of calculateRentStabilizationBoost
IncreaseRates == {Num(0), Frac(3, 100), Frac(84, 1000), Frac(2, 10)}

BoostYears == {BaseYear - 60, BaseYear - 16, BaseYear - 15, BaseYear - 14, BaseYear + 1}

\* what writers put into the table properties
DbPrices == {Num(100), Num(200)}

DbSqfts == {Num(50), Num(100)}

DbYears == {BaseYear - 60, BaseYear - 30, BaseYear - 15, BaseYear - 14}

\* an id of neighborhood_stats, or no neighborhood
NeighborhoodIds == {"n1", "NULL"}

SqlEligibilityYears == {BaseYear - 60} \cup (BaseYear - 17)..(BaseYear - 13)

\* the years k successive clock reads of one call return: the first returns
\* now, and a new year may begin between two reads
ClockReads(k) ==
  {[i \in 1..k |-> IF i < j THEN now ELSE now + 1] :
     j \in IF now < MaxYear THEN 2..(k + 1) ELSE {k + 1}}

----------------------------------------------------------------------------
(* The state machine: one call at a time, each returning to its caller *)

Init ==
  /\ now = BaseYear
  /\ completion = "none"
  /\ fn = "none"
  /\ args = << >>
  /\ reads = << >>
  /\ ret = << >>
  /\ properties = << >>

\* a call of f with arguments a that makes the clock reads r and returns v
Returns(f, a, r, v) ==
  /\ completion' = "normal"
  /\ fn' = f
  /\ args' = a
  /\ reads' = r
  /\ ret' = v
  /\ now' = IF r = << >> THEN now ELSE r[Len(r)]
  /\ properties' = properties

\* a new year begins
Tick ==
  /\ completion = "none"
  /\ now < MaxYear
  /\ now' = now + 1
  /\ UNCHANGED <<completion, fn, args, reads, ret, properties>>

CallCalculatePriceAdvantage ==
  /\ completion = "none"
  /\ \E property \in PriceProperties, neighborhood \in PriceNeighborhoods :
       Returns("calculatePriceAdvantage",
               [property |-> property, neighborhood |-> neighborhood], << >>,
               calculatePriceAdvantage(property, neighborhood))

CallCalculateSizeAdvantage ==
  /\ completion = "none"
  /\ \E property \in SizeProperties, neighborhood \in SizeNeighborhoods :
       Returns("calculateSizeAdvantage",
               [property |-> property, neighborhood |-> neighborhood], << >>,
               calculateSizeAdvantage(property, neighborhood))

CallCalculateAgeAdvantage ==
  /\ completion = "none"
  /\ \E property \in AgeProperties, neighborhood \in AgeNeighborhoods :
       Returns("calculateAgeAdvantage",
               [property |-> property, neighborhood |-> neighborhood], <<now>>,
               calculateAgeAdvantage(property, neighborhood, now))

CallCalculateLocationBonus ==
  /\ completion = "none"
  /\ \E neighborhood \in LocationNeighborhoods :
       Returns("calculateLocationBonus", [neighborhood |-> neighborhood], << >>,
               calculateLocationBonus(neighborhood))

CallCalculateDealScore ==
  /\ completion = "none"
  /\ \E c \in ScoreCases, r \in ClockReads(3) :
       Returns("calculateDealScore", [property |-> c[1], neighborhood |-> c[2]], r,
               calculateDealScore(c[1], c[2], r[1], r[2], r[3]))

CallGetDealScoreCategory ==
  /\ completion = "none"
  /\ \E score \in Scores :
       Returns("getDealScoreCategory", [score |-> score], << >>,
               getDealScoreCategory(score))

\* the caller passes the score it has computed for the listing this year
CallGenerateInvestmentRecommendation ==
  /\ completion = "none"
  /\ \E property \in RecommendationProperties, neighborhood \in RecommendationNeighborhoods :
       LET dealScore == calculateDealScore(property, neighborhood, now, now, now)
       IN  Returns("generateInvestmentRecommendation",
                   [dealScore |-> dealScore, property |-> property,
                    neighborhood |-> neighborhood], <<now>>,
                   generateInvestmentRecommendation(dealScore, property, neighborhood, now))

CallCheckRentCapEligibility ==
  /\ completion = "none"
  /\ \E yearBuilt \in EligibilityYears :
       Returns("checkRentCapEligibility", [yearBuilt |-> yearBuilt], <<now>>,
               checkRentCapEligibility(yearBuilt, now))

CallCalculateMaxRentIncrease ==
  /\ completion = "none"
  /\ \E currentRent \in Rents, yearBuilt \in EligibilityYears,
        inflationRate \in InflationRates :
       Returns("calculateMaxRentIncrease",
               [currentRent |-> currentRent, yearBuilt |-> yearBuilt,
                inflationRate |-> inflationRate], <<now>>,
               calculateMaxRentIncrease(currentRent, yearBuilt, inflationRate, now))

CallCheckAdditionalExemptions ==
  /\ completion = "none"
  /\ \E propertyType \in Labels, isSingleFamily \in BOOLEAN,
        ownerOccupied \in BOOLEAN, recentlyBuilt \in BOOLEAN :
       Returns("checkAdditionalExemptions",
               [propertyType |-> propertyType, isSingleFamily |-> isSingleFamily,
                ownerOccupied |-> ownerOccupied, recentlyBuilt |-> recentlyBuilt], << >>,
               checkAdditionalExemptions(propertyType, isSingleFamily,
                                         ownerOccupied, recentlyBuilt))

CallGenerateRentCapNotice ==
  /\ completion = "none"
  /\ \E currentRent \in Rents, yearBuilt \in NoticeYears, propertyType \in NoticeLabels,
        isSingleFamily \in BOOLEAN, ownerOccupied \in BOOLEAN, r \in ClockReads(2) :
       Returns("generateRentCapNotice",
               [currentRent |-> currentRent, yearBuilt |-> yearBuilt,
                propertyType |-> propertyType, isSingleFamily |-> isSingleFamily,
                ownerOccupied |-> ownerOccupied], r,
               generateRentCapNotice(currentRent, yearBuilt, propertyType,
                                     isSingleFamily, ownerOccupied, r[1], r[2]))

CallCalculateRentStabilizationBoost ==
  /\ completion = "none"
  /\ \E yearBuilt \in BoostYears, currentMarketRent \in MarketRents,
        potentialRentIncrease \in IncreaseRates :
       Returns("calculateRentStabilizationBoost",
               [yearBuilt |-> yearBuilt, currentMarketRent |-> currentMarketRent,
                potentialRentIncrease |-> potentialRentIncrease], <<now>>,
               calculateRentStabilizationBoost(yearBuilt, currentMarketRent,
                                               potentialRentIncrease, now))

\* the caller takes the result; the next call can begin
Return ==
  /\ completion # "none"
  /\ completion' = "none"
  /\ fn' = "none"
  /\ args' = << >>
  /\ reads' = << >>
  /\ ret' = << >>
  /\ UNCHANGED <<now, properties>>

Next ==
  \/ Tick
  \/ CallCalculatePriceAdvantage
  \/ CallCalculateSizeAdvantage
  \/ CallCalculateAgeAdvantage
  \/ CallCalculateLocationBonus
  \/ CallCalculateDealScore
  \/ CallGetDealScoreCategory
  \/ CallGenerateInvestmentRecommendation
  \/ CallCheckRentCapEligibility
  \/ CallCalculateMaxRentIncrease
  \/ CallCheckAdditionalExemptions
  \/ CallGenerateRentCapNotice
  \/ CallCalculateRentStabilizationBoost
  \/ Return

Spec == Init /\ [][Next]_vars

----------------------------------------------------------------------------
(* The database: statements on the table properties, each run at once with *)
(* its BEFORE triggers                                                      *)

\* SELECT check_rent_cap_eligibility(p_year_built)
CallCheck_rent_cap_eligibility ==
  /\ completion = "none"
  /\ \E p_year_built \in SqlEligibilityYears :
       Returns("check_rent_cap_eligibility", [p_year_built |-> p_year_built], <<now>>,
               check_rent_cap_eligibility(p_year_built, now))

\* INSERT INTO properties: trigger_update_property_metrics fires before the
\* row is stored; created_at and updated_at default to NOW(); supplied is
\* the is_rent_stabilized the writer gives (FALSE when it gives none)
Insert ==
  /\ completion = "none"
  /\ Len(properties) < MaxRows
  /\ \E price \in DbPrices, sqft \in DbSqfts, year_built \in DbYears,
        neighborhood_id \in NeighborhoodIds, supplied \in BOOLEAN :
       properties' = Append(properties,
         update_property_metrics(
           [price |-> price, sqft |-> sqft, year_built |-> year_built,
            neighborhood_id |-> neighborhood_id, deal_score |-> Null,
            is_rent_stabilized |-> supplied, rent_cap_percentage |-> Null,
            updated_at |-> now], now))
  /\ UNCHANGED <<now, completion, fn, args, reads, ret>>

\* UPDATE properties SET price, year_built, is_rent_stabilized WHERE id:
\* trigger_update_property_metrics, then update_properties_updated_at, fire
\* before the row is stored; setting each column to its stored value
\* re-saves the row
Update ==
  /\ completion = "none"
  /\ \E id \in 1..Len(properties), price \in DbPrices, year_built \in DbYears,
        supplied \in BOOLEAN :
       LET new == [properties[id] EXCEPT !.price = price, !.year_built = year_built,
                                         !.is_rent_stabilized = supplied]
       IN  properties' =
             [properties EXCEPT ![id] =
                update_updated_at_column(update_property_metrics(new, now), now)]
  /\ UNCHANGED <<now, completion, fn, args, reads, ret>>

NextDb ==
  \/ Tick
  \/ CallCheck_rent_cap_eligibility
  \/ Insert
  \/ Update
  \/ Return

SpecDb == Init /\ [][NextDb]_vars

----------------------------------------------------------------------------
(* Properties *)

\* the call of f has completed and its result is in ret
Called(f) == completion = "normal" /\ fn = f

Between(x, lo, hi) == Le(Num(lo), x) /\ Le(x, Num(hi))

\* the documented input domain of calculateDealScore
ValidScoreInput ==
  /\ Gt(args.property.price, Num(0))
  /\ Gt(args.property.sqft, Num(0))
  /\ Gt(args.property.baths, Num(0))
  /\ Gt(args.neighborhood.medianPricePerSqft, Num(0))
  /\ Gt(args.neighborhood.avgSqft, Num(0))

\* C1: for every valid input of calculateDealScore the total score lies in
\* [0,100] and each sub-score within its documented range: price advantage
\* [0,40], size [0,15], age [0,15], rent stabilization [0,10], location [0,10],
\* market timing [0,10].
C1_ScoresInRange ==
  Called("calculateDealScore") /\ ValidScoreInput =>
    /\ Between(ret.totalScore, 0, 100)
    /\ Between(ret.priceAdvantage, 0, 40)
    /\ Between(ret.sizeAdvantage, 0, 15)
    /\ Between(ret.ageAdvantage, 0, 15)
    /\ Between(ret.rentStabilizationBonus, 0, 10)
    /\ Between(ret.locationBonus, 0, 10)
    /\ Between(ret.marketTimingBonus, 0, 10)

\* a valid call in which the size and the location clamps both cut the score
C1_Witness ==
  /\ Called("calculateDealScore")
  /\ ValidScoreInput
  /\ Gt(sizeScore(args.property, args.neighborhood), Num(15))
  /\ ret.sizeAdvantage = Num(15)
  /\ ret.locationBonus = Num(10)

\* the price advantage a completed call computed
PriceAdvantageOf == IF fn = "calculatePriceAdvantage" THEN ret ELSE ret.priceAdvantage

\* (price/sqft)/medianPricePerSqft <= k/100, by cross-multiplication, for a
\* positive sqft and a positive median
RatioLe(k) ==
  LET p == args.property.price
      a == args.property.sqft
      m == args.neighborhood.medianPricePerSqft
  IN  100 * p.n * a.d * m.d <= k * p.d * a.n * m.n

PriceStep ==
  IF RatioLe(80) THEN 40
  ELSE IF RatioLe(90) THEN 35
  ELSE IF RatioLe(95) THEN 30
  ELSE IF RatioLe(100) THEN 25
  ELSE IF RatioLe(105) THEN 20
  ELSE IF RatioLe(110) THEN 15
  ELSE IF RatioLe(120) THEN 10
  ELSE 5

RatioDefined ==
  /\ Gt(args.property.sqft, Num(0))
  /\ Gt(args.neighborhood.medianPricePerSqft, Num(0))

\* C2: the price advantage is the step function of the ratio
\* (price/sqft)/medianPricePerSqft with inclusive upper bounds: <= 0.80 gives
\* 40, <= 0.90 gives 35, <= 0.95 gives 30, <= 1.00 gives 25, <= 1.05 gives 20,
\* <= 1.10 gives 15, <= 1.20 gives 10, otherwise 5; so it never increases with
\* the ratio.
C2_PriceStepFunction ==
  (Called("calculatePriceAdvantage") \/ Called("calculateDealScore")) /\ RatioDefined =>
    PriceAdvantageOf = Num(PriceStep)

\* a ratio of exactly 0.80 scored 40
C2_Witness ==
  /\ Called("calculatePriceAdvantage")
  /\ RatioDefined
  /\ RatioLe(80) /\ ~RatioLe(79)
  /\ Div(Div(args.property.price, args.property.sqft),
         args.neighborhood.medianPricePerSqft) = Frac(8, 10)
  /\ ret = Num(40)

\* C3: checkRentCapEligibility finds a property eligible exactly when it was
\* built 15 or more years before the current year: not at age 14 or less,
\* and at age 15 and above.
C3_EligibleFromAge15 ==
  Called("checkRentCapEligibility") =>
    (ret.isEligible <=> args.yearBuilt <= reads[1] - 15)

\* a property of age exactly 15 was found eligible
C3_Witness ==
  /\ Called("checkRentCapEligibility")
  /\ reads[1] - args.yearBuilt = 15
  /\ ret.isEligible

\* C4: for a property younger than 15 years calculateMaxRentIncrease returns
\* maxIncrease 0, increasePercentage 0, isEligible false and maxNewRent equal
\* to currentRent, whatever the rent and the inflation rate.
C4_IneligibleNoIncrease ==
  Called("calculateMaxRentIncrease") /\ reads[1] - args.yearBuilt < 15 =>
    /\ ret.maxIncrease = Num(0)
    /\ ret.increasePercentage = Num(0)
    /\ ret.isEligible = FALSE
    /\ ret.maxNewRent = args.currentRent

\* a 14-year-old property with a positive rent and a supplied inflation rate
C4_Witness ==
  /\ Called("calculateMaxRentIncrease")
  /\ reads[1] - args.yearBuilt = 14
  /\ Gt(args.currentRent, Num(0))
  /\ args.inflationRate = Num(10)
  /\ ret.maxNewRent = args.currentRent

\* C5 (as claimed): for an eligible property increasePercentage is 5.0 plus
\* the inflation rate the caller supplied, whatever its value (0 included),
\* and 5.0 + 3.4 only when none was supplied; maxIncrease is
\* currentRent * increasePercentage / 100 and maxNewRent is
\* currentRent + maxIncrease.
C5_SuppliedRateOverrides ==
  Called("calculateMaxRentIncrease") /\ reads[1] - args.yearBuilt >= 15 =>
    LET rate == IF args.inflationRate = Undefined THEN Frac(34, 10)
                ELSE args.inflationRate
        percentage == Add(Num(5), rate)
        increase == Div(Mul(args.currentRent, percentage), Num(100))
    IN  /\ ret.increasePercentage = percentage
        /\ ret.maxIncrease = increase
        /\ ret.maxNewRent = Add(args.currentRent, increase)

\* score, a multiple of 0.1, in tenths
Tenths(score) == (10 * score.n) \div score.d

\* C6: getDealScoreCategory maps a score in [0,100] to one of five bands with
\* inclusive lower edges: from 90 Excellent, from 80 Great, from 70 Good, from
\* 60 Average, below 60 Poor.
C6_CategoryBands ==
  Called("getDealScoreCategory") =>
    LET k == Tenths(args.score)
    IN  ret.category = IF k >= 900 THEN "Excellent Deal"
                       ELSE IF k >= 800 THEN "Great Deal"
                       ELSE IF k >= 700 THEN "Good Deal"
                       ELSE IF k >= 600 THEN "Average Deal"
                       ELSE "Poor Deal"

\* the score 90.0, the lowest of the top band, was rated Excellent
C6_Witness ==
  /\ Called("getDealScoreCategory")
  /\ args.score = Num(90)
  /\ ret.category = "Excellent Deal"

\* C7: the breakdown of calculateDealScore has exactly five entries, in the
\* order Price Advantage (max 40), Size & Layout (15), Age & Rent
\* Stabilization (25), Location & Amenities (10), Market Timing (10), and their
\* scores are priceAdvantage, sizeAdvantage, ageAdvantage +
\* rentStabilizationBonus, locationBonus and marketTimingBonus.
C7_BreakdownOrder ==
  Called("calculateDealScore") =>
    /\ Len(ret.breakdown) = 5
    /\ [i \in 1..5 |-> ret.breakdown[i].component] =
         <<"Price Advantage", "Size & Layout", "Age & Rent Stabilization",
           "Location & Amenities", "Market Timing">>
    /\ [i \in 1..5 |-> ret.breakdown[i].maxScore] = <<40, 15, 25, 10, 10>>
    /\ [i \in 1..5 |-> ret.breakdown[i].score] =
         <<ret.priceAdvantage, ret.sizeAdvantage,
           Add(ret.ageAdvantage, ret.rentStabilizationBonus),
           ret.locationBonus, ret.marketTimingBonus>>

\* a valid call whose first three entries carry three different scores
C7_Witness ==
  /\ Called("calculateDealScore")
  /\ ValidScoreInput
  /\ ret.breakdown[1].score = Num(40)
  /\ ret.breakdown[2].score = Frac(135, 10)
  /\ ret.breakdown[3].score = Num(15)

\* x limited to [lo, hi]
Clamp(lo, hi, x) ==
  IF IsNaN(x) THEN NaN ELSE IF Lt(x, lo) THEN lo ELSE IF Gt(x, hi) THEN hi ELSE x

\* C8: the total score is the sum of the six sub-score fields of the same
\* result, limited to [0,100].
C8_TotalIsClampedSum ==
  Called("calculateDealScore") =>
    ret.totalScore =
      Clamp(Num(0), Num(100),
            Add(Add(Add(Add(Add(ret.priceAdvantage, ret.sizeAdvantage),
                            ret.ageAdvantage),
                        ret.rentStabilizationBonus),
                    ret.locationBonus),
                ret.marketTimingBonus))

\* a valid call with every sub-score but the rent bonus at its maximum
C8_Witness ==
  /\ Called("calculateDealScore")
  /\ ValidScoreInput
  /\ ret.locationBonus = Num(10)
  /\ ret.totalScore = Num(90)

\* C9 (as claimed): calculateDealScore fails with InvalidInput, returning no
\* score, when the price or the floor area is zero or negative.
C9_InvalidInputRejected ==
  /\ completion # "none"
  /\ fn = "calculateDealScore"
  /\ (Le(args.property.price, Num(0)) \/ Le(args.property.sqft, Num(0)))
  => completion = "throw" /\ ret = "InvalidInput"

ZeroDenominator ==
  \/ args.property.sqft = Num(0)
  \/ args.property.baths = Num(0)
  \/ args.property.price = Num(0)
  \/ args.neighborhood.medianPricePerSqft = Num(0)
  \/ args.neighborhood.avgSqft = Num(0)

\* C10 (as claimed): with a zero denominator (sqft, medianPricePerSqft,
\* avgSqft, baths, or the market rent estimated from a price of 0) every
\* sub-score and the total stay finite, and with baths = 0 the size advantage
\* has no bed/bath adjustment.
C10_ZeroDenominatorsSkipped ==
  Called("calculateDealScore") /\ ZeroDenominator =>
    /\ \A x \in {ret.totalScore, ret.priceAdvantage, ret.sizeAdvantage,
                  ret.ageAdvantage, ret.rentStabilizationBonus, ret.locationBonus,
                  ret.marketTimingBonus} : IsFinite(x)
    /\ args.property.baths = Num(0) =>
         ret.sizeAdvantage =
           calculateSizeAdvantage(
             [args.property EXCEPT !.beds = Num(0), !.baths = Num(1)],
             args.neighborhood)

\* C12: checkRentCapEligibility returns, for an ineligible property, exactly
\* one exemption reason naming the age and the 15-year threshold, with
\* maxIncreasePercentage 0 and nextYearCap 0; for an eligible one no reason,
\* maxIncreasePercentage 5.0 + 3.4 = 8.4 and nextYearCap 5.0 + 3.4 * 0.9 =
\* 8.06; in both cases propertyAge = currentYear - yearBuilt.
C12_EligibilityRecord ==
  Called("checkRentCapEligibility") =>
    LET age == reads[1] - args.yearBuilt
    IN  /\ ret.propertyAge = age
        /\ age < 15 =>
             /\ Len(ret.exemptionReasons) = 1
             /\ ret.exemptionReasons[1] =
                  <<"Property is only", age, "years old (must be 15+ years)">>
             /\ ret.maxIncreasePercentage = Num(0)
             /\ ret.nextYearCap = Num(0)
        /\ age >= 15 =>
             /\ ret.exemptionReasons = << >>
             /\ ret.maxIncreasePercentage = Frac(84, 10)
             /\ ret.nextYearCap = Frac(806, 100)

\* an eligible property with the projected cap 8.06
C12_Witness ==
  /\ Called("checkRentCapEligibility")
  /\ reads[1] - args.yearBuilt >= 15
  /\ ret.nextYearCap = Frac(806, 100)
  /\ ret.exemptionReasons = << >>

\* C13 (as claimed): calculateRentStabilizationBoost returns zeros for an
\* age-ineligible property; for an eligible one, with volatilityBenefit =
\* 0.08 - maxIncreasePercentage/100, annualValue = marketRent *
\* volatilityBenefit, fiveYearValue = 5 * annualValue and boostScore =
\* clamp(0, 20, volatilityBenefit * 100), a number in [0,20] for every
\* marketRent.
C13_BoostValues ==
  Called("calculateRentStabilizationBoost") =>
    IF reads[1] - args.yearBuilt < 15
    THEN /\ ret.boostScore = Num(0)
         /\ ret.annualValue = Num(0)
         /\ ret.fiveYearValue = Num(0)
    ELSE LET volatilityBenefit == Sub(Frac(8, 100), Div(Frac(84, 10), Num(100)))
             annualValue == Mul(args.currentMarketRent, volatilityBenefit)
         IN  /\ ret.annualValue = annualValue
             /\ ret.fiveYearValue = Mul(Num(5), annualValue)
             /\ ret.boostScore = Clamp(Num(0), Num(20), Mul(volatilityBenefit, Num(100)))
             /\ Between(ret.boostScore, 0, 20)

\* C14: boostScore, annualValue and fiveYearValue of
\* calculateRentStabilizationBoost do not depend on its third parameter: the
\* call with any other assumed rate returns the same three values.
C14_RateParameterUnused ==
  Called("calculateRentStabilizationBoost") =>
    \A other \in IncreaseRates :
      LET alt == calculateRentStabilizationBoost(args.yearBuilt, args.currentMarketRent,
                                                 other, reads[1])
      IN  /\ alt.boostScore = ret.boostScore
          /\ alt.annualValue = ret.annualValue
          /\ alt.fiveYearValue = ret.fiveYearValue

\* an eligible property with a positive market rent and an assumed rate of 20%
C14_Witness ==
  /\ Called("calculateRentStabilizationBoost")
  /\ reads[1] - args.yearBuilt >= 15
  /\ Gt(args.currentMarketRent, Num(0))
  /\ args.potentialRentIncrease = Frac(2, 10)
  /\ ret.annualValue = Mul(args.currentMarketRent, Frac(-4, 1000))

\* the label was typed with one of the given words in it
MadeWith(label, words) ==
  \E a \in Words, b \in Words :
    label = TwoWords(a, b) /\ (a \in words \/ b \in words)

\* the reasons whose rule fires for the arguments of checkAdditionalExemptions
FiringReasons(a) ==
  {r \in {"Single-family home owned by small landlord (<=2 properties)",
          "Recently constructed property", "Educational institution housing",
          "Transient lodging", "Restricted affordable housing"} :
     \/ r = "Single-family home owned by small landlord (<=2 properties)"
          /\ a.isSingleFamily /\ ~a.ownerOccupied
     \/ r = "Recently constructed property" /\ a.recentlyBuilt
     \/ r = "Educational institution housing" /\ MadeWith(a.propertyType, EducationalWords)
     \/ r = "Transient lodging" /\ MadeWith(a.propertyType, LodgingWords)
     \/ r = "Restricted affordable housing" /\ MadeWith(a.propertyType, AffordableWords)}

\* C15: checkAdditionalExemptions returns a list that holds exactly the
\* reasons whose rule fires, each once: small landlord iff isSingleFamily and
\* not ownerOccupied, recent construction iff recentlyBuilt, educational iff
\* the label contains 'dorm' or 'school', transient lodging iff 'hotel' or
\* 'motel', restricted affordable iff 'nonprofit' or 'affordable', in any
\* letter case; isSubjectToAB1482 is true iff the list is empty and
\* hasExemptions is its negation.
C15_ExemptionRules ==
  Called("checkAdditionalExemptions") =>
    /\ {ret.exemptionReasons[i] : i \in 1..Len(ret.exemptionReasons)} = FiringReasons(args)
    /\ Len(ret.exemptionReasons) = Cardinality(FiringReasons(args))
    /\ ret.isSubjectToAB1482 = (ret.exemptionReasons = << >>)
    /\ ret.hasExemptions = ~ret.isSubjectToAB1482

\* an owner-occupied house labelled 'SCHOOL Motel': two reasons, by label only
C15_Witness ==
  /\ Called("checkAdditionalExemptions")
  /\ args.propertyType = TwoWords(<<"S", "C", "H", "O", "O", "L">>, <<"M", "o", "t", "e", "l">>)
  /\ args.isSingleFamily /\ args.ownerOccupied /\ ~args.recentlyBuilt
  /\ ret.exemptionReasons = <<"Educational institution housing", "Transient lodging">>
  /\ ~ret.isSubjectToAB1482

\* the notice has a line that begins with the given text
HasLine(notice, text) == \E i \in 1..Len(notice) : notice[i][1] = text

\* the additional exemptions that fire for the arguments of generateRentCapNotice
NoticeExemptions ==
  FiringReasons([propertyType |-> args.propertyType,
                 isSingleFamily |-> args.isSingleFamily,
                 ownerOccupied |-> args.ownerOccupied,
                 recentlyBuilt |-> args.yearBuilt > 2009])

\* C16: generateRentCapNotice writes the age-exemption text iff the property
\* is age-ineligible, whatever the other exemptions; the bullet list of
\* additional exemptions iff at least one of them fired; the 'subject to
\* AB 1482' branch with the figures of calculateMaxRentIncrease iff neither
\* holds; and returns isEligible true exactly in that last branch.
C16_NoticeBranches ==
  Called("generateRentCapNotice") =>
    LET age == reads[1] - args.yearBuilt
        increaseCalc == calculateMaxRentIncrease(args.currentRent, args.yearBuilt,
                                                 Undefined, reads[2])
        subject == age >= 15 /\ NoticeExemptions = {}
    IN  /\ HasLine(ret.notice, "Property Age Exemption: Built in") = (age < 15)
        /\ HasLine(ret.notice, "AB 1482 applies to properties 15+ years old.") = (age < 15)
        /\ HasLine(ret.notice, "Additional Exemptions:") = (NoticeExemptions # {})
        /\ {ret.notice[i][2] : i \in {k \in 1..Len(ret.notice) : ret.notice[k][1] = "*"}}
             = NoticeExemptions
        /\ HasLine(ret.notice, "This property is subject to AB 1482 rent cap regulations.")
             = subject
        /\ HasLine(ret.notice, "This property may be exempt from AB 1482 rent cap regulations.")
             = ~subject
        /\ subject =>
             /\ <<"Maximum Annual Increase: %", ToFixed(increaseCalc.increasePercentage, 1)>>
                  = ret.notice[3]
             /\ <<"Maximum Increase Amount: $", ToFixed(increaseCalc.maxIncrease, 2)>>
                  = ret.notice[4]
             /\ <<"Maximum New Rent: $", ToLocaleString(increaseCalc.maxNewRent)>>
                  = ret.notice[5]
        /\ ret.isEligible = subject

\* a 16-year-old owner-occupied condo at 2499.50: subject, 8.4% and 209.96
C16_Witness ==
  /\ Called("generateRentCapNotice")
  /\ reads[1] - args.yearBuilt = 16
  /\ args.currentRent = Frac(24995, 10)
  /\ ret.isEligible
  /\ ret.notice[3] = <<"Maximum Annual Increase: %", <<"fixed", 1, 84>> >>
  /\ ret.notice[4] = <<"Maximum Increase Amount: $", <<"fixed", 2, 20996>> >>

\* the location bonus a completed call computed
LocationBonusOf == IF fn = "calculateLocationBonus" THEN ret ELSE ret.locationBonus

\* an optional field was supplied, whatever its value
Supplied(x) == x # Undefined

\* C17 (as claimed): locationBonus = clamp(0, 10, 5 + walk + school + crime +
\* transit), where a supplied field counts even when its value is 0: walk
\* score >= 90 adds 3, >= 70 adds 2, >= 50 adds 1; school rating >= 8 adds 2,
\* >= 6 adds 1; crime rate <= 20 adds 2 (so a supplied 0 adds 2), <= 40 adds
\* 1; transit score >= 70 adds 1; absent fields add nothing.
C17_LocationBonus ==
  (Called("calculateLocationBonus") \/ Called("calculateDealScore")) =>
    LET n == args.neighborhood
        walk == IF ~Supplied(n.walkScore) THEN 0
                ELSE IF Ge(n.walkScore, Num(90)) THEN 3
                ELSE IF Ge(n.walkScore, Num(70)) THEN 2
                ELSE IF Ge(n.walkScore, Num(50)) THEN 1 ELSE 0
        school == IF ~Supplied(n.schoolRating) THEN 0
                  ELSE IF Ge(n.schoolRating, Num(8)) THEN 2
                  ELSE IF Ge(n.schoolRating, Num(6)) THEN 1 ELSE 0
        crime == IF ~Supplied(n.crimeRate) THEN 0
                 ELSE IF Le(n.crimeRate, Num(20)) THEN 2
                 ELSE IF Le(n.crimeRate, Num(40)) THEN 1 ELSE 0
        transit == IF ~Supplied(n.transitScore) THEN 0
                   ELSE IF Ge(n.transitScore, Num(70)) THEN 1 ELSE 0
    IN  LocationBonusOf = Clamp(Num(0), Num(10), Num(5 + walk + school + crime + transit))

\* C18 (as claimed): generateInvestmentRecommendation returns the risks, in
\* this order, whose condition holds: priceAdvantage < 20; yearBuilt >
\* currentYear - 5; crime rate supplied and > 50; appreciation rate supplied
\* and < 2 (so a supplied rate of 0 or below gives 'Low appreciation
\* potential'); recommendation is that of getDealScoreCategory(totalScore).
C18_RisksAndRecommendation ==
  Called("generateInvestmentRecommendation") =>
    LET n == args.neighborhood
    IN  /\ ret.risks =
             (IF Lt(args.dealScore.priceAdvantage, Num(20))
              THEN <<"Property may be overpriced compared to neighborhood">> ELSE << >>)
             \o (IF args.property.yearBuilt > reads[1] - 5
                 THEN <<"New construction may have premium pricing">> ELSE << >>)
             \o (IF Supplied(n.crimeRate) /\ Gt(n.crimeRate, Num(50))
                 THEN <<"Higher crime rate in area">> ELSE << >>)
             \o (IF Supplied(n.priceAppreciationRate) /\ Lt(n.priceAppreciationRate, Num(2))
                 THEN <<"Low appreciation potential">> ELSE << >>)
        /\ ret.recommendation = getDealScoreCategory(args.dealScore.totalScore).recommendation

\* the size advantage a completed call computed
SizeAdvantageOf == IF fn = "calculateSizeAdvantage" THEN ret ELSE ret.sizeAdvantage

\* sqft/avgSqft >= k/100, by cross-multiplication, for a positive avgSqft
SizeRatioGe(k) ==
  LET a == args.property.sqft
      m == args.neighborhood.avgSqft
  IN  100 * a.n * m.d >= k * m.n * a.d

\* beds/baths >= k and beds/baths <= k, by cross-multiplication, for positive baths
BedBathGe(k) ==
  args.property.beds.n * args.property.baths.d
    >= k * args.property.baths.n * args.property.beds.d

BedBathLe(k) ==
  args.property.beds.n * args.property.baths.d
    <= k * args.property.baths.n * args.property.beds.d

\* twice 7.5 + s + b + t of the completed call
TwiceSizeSum ==
  15 + 2 * (IF SizeRatioGe(120) THEN 4 ELSE IF SizeRatioGe(110) THEN 3
            ELSE IF SizeRatioGe(100) THEN 2 ELSE IF SizeRatioGe(90) THEN 1 ELSE -2)
     + 2 * (IF BedBathGe(1) /\ BedBathLe(2) THEN 2 ELSE IF ~BedBathLe(2) THEN -1 ELSE 0)
     + 2 * (IF args.property.propertyType = "single_family" THEN 2
            ELSE IF args.property.propertyType = "townhouse" THEN 1 ELSE 0)

\* the call has finite sizes with baths > 0 and avgSqft > 0
SizeDefined ==
  /\ Called("calculateSizeAdvantage") \/ Called("calculateDealScore")
  /\ IsFinite(args.property.sqft) /\ IsFinite(args.property.beds)
  /\ IsFinite(args.property.baths) /\ Gt(args.property.baths, Num(0))
  /\ IsFinite(args.neighborhood.avgSqft) /\ Gt(args.neighborhood.avgSqft, Num(0))

\* C19: for baths > 0 and avgSqft > 0, sizeAdvantage = clamp(0, 15, 7.5 + s +
\* b + t): s is 4 if sqft/avgSqft >= 1.20, 3 if >= 1.10, 2 if >= 1.00, 1 if
\* >= 0.90, else -2; b is 2 if beds/baths is in [1,2], -1 if above 2, 0 if
\* below 1; t is 2 for single-family, 1 for townhouse, 0 otherwise.
C19_SizeAdvantage ==
  SizeDefined =>
    SizeAdvantageOf = Clamp(Num(0), Num(15), Frac(TwiceSizeSum, 2))

\* a townhouse 10% larger than average with exactly two bedrooms per
\* bathroom: 7.5 + 3 + 2 + 1
C19_Witness ==
  /\ Called("calculateSizeAdvantage")
  /\ args.property.sqft = Num(110) /\ args.neighborhood.avgSqft = Num(100)
  /\ args.property.beds = Num(4) /\ args.property.baths = Num(2)
  /\ args.property.propertyType = "townhouse"
  /\ ret = Frac(135, 10)

\* the age advantage a completed call computed
AgeAdvantageOf == IF fn = "calculateAgeAdvantage" THEN ret ELSE ret.ageAdvantage

\* C20: ageAdvantage = clamp(0, 15, 10 + r + h) with propertyAge =
\* currentYear - yearBuilt: r is 5 if the property is more than 20 years
\* older than the neighborhood average, else 3 if more than 10 years older,
\* else 1 if less than 5 years newer, else -2, and so depends only on
\* avgYearBuilt - yearBuilt, not on the current year; h is 3 if propertyAge
\* >= 50, 2 if >= 30, else 0.
C20_AgeAdvantage ==
  (Called("calculateAgeAdvantage") \/ Called("calculateDealScore")) =>
    LET older == args.neighborhood.avgYearBuilt - args.property.yearBuilt
        propertyAge == reads[1] - args.property.yearBuilt
        r == IF older > 20 THEN 5 ELSE IF older > 10 THEN 3
             ELSE IF older > -5 THEN 1 ELSE -2
        h == IF propertyAge >= 50 THEN 3 ELSE IF propertyAge >= 30 THEN 2 ELSE 0
    IN  AgeAdvantageOf = Clamp(Num(0), Num(15), Num(10 + r + h))

\* a property exactly 20 years older than the average and under 30: 10 + 3
C20_Witness ==
  /\ Called("calculateAgeAdvantage")
  /\ args.neighborhood.avgYearBuilt - args.property.yearBuilt = 20
  /\ reads[1] - args.property.yearBuilt < 30
  /\ ret = Num(13)

\* the years the completed call read from the clock
YearsRead == {reads[i] : i \in 1..Len(reads)}

\* the completed calculateDealScore call returned what one fixed year gives
DealScoreOfOneYear ==
  \E y \in YearsRead :
    ret = calculateDealScore(args.property, args.neighborhood, y, y, y)

\* the completed generateRentCapNotice call returned what one fixed year gives
NoticeOfOneYear ==
  \E y \in YearsRead :
    ret = generateRentCapNotice(args.currentRent, args.yearBuilt, args.propertyType,
                                args.isSingleFamily, args.ownerOccupied, y, y)

\* C21 (as claimed): within one call of calculateDealScore and within one
\* call of generateRentCapNotice every age and eligibility computation uses
\* the same current year: even if the year advances between the call's clock
\* reads, the result equals the result for a single fixed year, so the notice
\* never pairs an age-exemption text with a non-zero maxIncrease.
C21_OneYearPerCall ==
  /\ Called("calculateDealScore") => DealScoreOfOneYear
  /\ Called("generateRentCapNotice") =>
       /\ NoticeOfOneYear
       /\ HasLine(ret.notice, "Property Age Exemption: Built in") => ret.maxIncrease = Num(0)

\* the sum of the six sub-scores of a score record, before the clamp
UnclampedTotal(score) ==
  Add(Add(Add(score.priceAdvantage, score.sizeAdvantage),
          Add(score.ageAdvantage, score.rentStabilizationBonus)),
      Add(score.locationBonus, score.marketTimingBonus))

\* C23: with the built-in inflation constant 3.4, rentStabilizationBonus is 0
\* for every property with price > 0, eligible or not, so the unclamped total
\* never exceeds 90; and generateInvestmentRecommendation, applied to a result
\* of calculateDealScore, never lists 'Rent stabilization provides
\* predictable cash flow'.
C23_NoStabilizationBonus ==
  /\ (Called("calculateDealScore") /\ IsFinite(args.property.price)
        /\ Gt(args.property.price, Num(0))) =>
       /\ ret.rentStabilizationBonus = Num(0)
       /\ ~Gt(UnclampedTotal(ret), Num(90))
  /\ Called("generateInvestmentRecommendation") =>
       \A i \in 1..Len(ret.opportunities) :
         ret.opportunities[i] # "Rent stabilization provides predictable cash flow"

\* an eligible property with every other sub-score at its maximum: 90
C23_Witness ==
  /\ Called("calculateDealScore")
  /\ reads[2] - args.property.yearBuilt >= 15 /\ reads[3] - args.property.yearBuilt >= 15
  /\ Gt(args.property.price, Num(0))
  /\ ret.rentStabilizationBonus = Num(0)
  /\ UnclampedTotal(ret) = Num(90)

\* C24 (as claimed): in generateRentCapNotice the 'Recently constructed
\* property' exemption, driven by yearBuilt > 2009, fires exactly when the
\* property is age-ineligible (currentYear - yearBuilt < 15), for every
\* yearBuilt and every current year, so no property 15 or more years old is
\* reported exempt as recently constructed.
C24_RecentMeansUnder15 ==
  Called("generateRentCapNotice") =>
    (\E i \in 1..Len(ret.notice) : ret.notice[i] = <<"*", "Recently constructed property">>)
      = (reads[1] - args.yearBuilt < 15)

\* C25 (as claimed): whenever generateRentCapNotice returns isEligible =
\* false its maxIncrease is 0; a non-zero maxIncrease comes only together
\* with isEligible = true.
C25_ExemptMeansNoIncrease ==
  Called("generateRentCapNotice") => (~ret.isEligible => ret.maxIncrease = Num(0))

\* C22 (as claimed): for every year_built and every current year the database
\* function check_rent_cap_eligibility(year_built) returns the boolean
\* checkRentCapEligibility(yearBuilt).isEligible, so the stored
\* is_rent_stabilized flag agrees with the scoring module's eligibility,
\* also at age exactly 15.
C22_DatabaseAgreesOnEligibility ==
  /\ Called("check_rent_cap_eligibility") =>
       ret = checkRentCapEligibility(args.p_year_built, reads[1]).isEligible
  /\ \A id \in 1..Len(properties) :
       properties[id].is_rent_stabilized =
         checkRentCapEligibility(properties[id].year_built,
                                 properties[id].updated_at).isEligible

\* the median calculate_deal_score is given for a stored row
MedianOf(row) ==
  IF row.neighborhood_id \in DOMAIN neighborhood_stats
  THEN neighborhood_stats[row.neighborhood_id].median_price_per_sqft
  ELSE Div(row.price, row.sqft)

\* C26 (as claimed): after any sequence of INSERT and UPDATE statements on
\* the table properties, every row's stored deal_score is
\* calculate_deal_score of its stored price, sqft, year_built and stored
\* is_rent_stabilized (with its neighborhood median, in the year of the
\* write), where is_rent_stabilized = check_rent_cap_eligibility(year_built)
\* whatever the writer supplied; so re-saving an unchanged row leaves
\* deal_score unchanged.
C26_StoredScoreMatchesStoredFlag ==
  \A id \in 1..Len(properties) :
    LET row == properties[id]
    IN  /\ row.is_rent_stabilized = check_rent_cap_eligibility(row.year_built, row.updated_at)
        /\ row.deal_score =
             Decimal2(calculate_deal_score(row.price, row.sqft, MedianOf(row), row.year_built,
                                           row.is_rent_stabilized, row.updated_at))

====
